---- MODULE Spec2Model ----
(***************************************************************************)
(* A model of mini-sh.js: the lexer (lex), the word splitter               *)
(* (splitWordIntoParts), the parser (parse / parseCommand / makeWord) and  *)
(* the expander (expandWord / buildArgv).                                  *)
(*                                                                         *)
(* A string is a sequence of one-character strings; cursors are 0-based as *)
(* in the source.  One behaviour of the model is one call parse(input)     *)
(* followed by one call of buildArgv on every command of the result.       *)
(***************************************************************************)
EXTENDS Integers, Sequences, FiniteSets, TLC

VARIABLES
  input,     \* the argument of parse
  pc,        \* "lex", "parse", "cmd", "split", "done", "expanded"; "off"
  i,         \* lex: cursor into input
  tokens,    \* lex: tokens pushed so far
  idx,       \* parse: cursor into tokens
  commands,  \* parse: commands pushed so far
  words,     \* parseCommand: words of the command being parsed
  redirs,    \* parseCommand: redirections of the command being parsed
  cmdStart,  \* parseCommand: start offset of the command being parsed
  sraw,      \* splitWordIntoParts: raw
  sbase,     \* splitWordIntoParts: baseOffset
  si,        \* splitWordIntoParts: cursor into raw
  parts,     \* splitWordIntoParts: parts pushed so far (before the merge)
  ret,       \* makeWord's caller: "word" or "target"
  pending,   \* the redirection waiting for its target word
  pipeline,  \* the value parse returned
  ctx,       \* the context given to buildArgv
  argv,      \* buildArgv of every command of the pipeline
  cliArgs,   \* parseFlags: its argv, process.argv.slice(2)
  cliI,      \* parseFlags: cursor into its argv
  result,    \* parseFlags: the object it builds (bixie's flags)
  options,   \* bixie: Object.assign(defaults, flags)
  cliPc      \* bixie: "off", "flags", "help" (printed the help and exited), "run"

vars == <<input, pc, i, tokens, idx, commands, words, redirs, cmdStart,
          sraw, sbase, si, parts, ret, pending, pipeline, ctx, argv,
          cliArgs, cliI, result, options, cliPc>>

lexVars   == <<i, tokens>>
parseVars == <<idx, commands, words, redirs, cmdStart, ret, pending, pipeline>>
splitVars == <<sraw, sbase, si, parts>>
expVars   == <<ctx, argv>>
flagVars  == <<cliArgs, cliI, result, options, cliPc>>

-----------------------------------------------------------------------------
(* Bounds *)

MaxLen == 3

-----------------------------------------------------------------------------
(* JavaScript values *)

Undefined == [t |-> "undefined"]
Null      == [t |-> "null"]
Num(n)    == [t |-> "number", v |-> n]
Str(s)    == [t |-> "string", v |-> s]
Fn(s)     == [t |-> "function", v |-> s]

\* The value of s[k] for a 0-based k: a character, or NoChar where JavaScript
\* gives undefined (NoChar is in no character class and equals no character).
NoChar == ""

CharAt(s, k) == IF k >= 0 /\ k < Len(s) THEN s[k + 1] ELSE NoChar

Min(a, b) == IF a < b THEN a ELSE b

\* String.prototype.slice for 0 <= a: the end is clamped to the length.
slice(s, a, b) ==
  LET e == Min(b, Len(s))
  IN IF a >= e THEN <<>> ELSE SubSeq(s, a + 1, e)

-----------------------------------------------------------------------------
(* Character classes *)

Digits == {"0", "1", "2", "3", "4", "5", "6", "7", "8", "9"}

Letters ==
  {"A", "B", "C", "D", "E", "F", "G", "H", "I", "J", "K", "L", "M",
   "N", "O", "P", "Q", "R", "S", "T", "U", "V", "W", "X", "Y", "Z",
   "a", "b", "c", "d", "e", "f", "g", "h", "i", "j", "k", "l", "m",
   "n", "o", "p", "q", "r", "s", "t", "u", "v", "w", "x", "y", "z"}

isSpace(ch) == ch \in {" ", "\t", "\n", "\r"}

isDigit(ch) == ch \in Digits

\* isVarStart that also takes a digit, as a shell's positional $2 would.
isVarStartOrDigit(ch) == ch \in Letters \/ ch = "_" \/ isDigit(ch)

isVarStart(ch) == ch \in Letters \/ ch = "_"

isVarChar(ch) == isVarStart(ch) \/ isDigit(ch)

makeSpan(start, end) == [start |-> start, end |-> end]

DigitVal ==
  "0" :> 0 @@ "1" :> 1 @@ "2" :> 2 @@ "3" :> 3 @@ "4" :> 4 @@
  "5" :> 5 @@ "6" :> 6 @@ "7" :> 7 @@ "8" :> 8 @@ "9" :> 9

\* Number(str) for a non-empty run of decimal digits.
RECURSIVE Number(_)
Number(s) ==
  IF s = <<>> THEN 0
  ELSE 10 * Number(SubSeq(s, 1, Len(s) - 1)) + DigitVal[s[Len(s)]]

-----------------------------------------------------------------------------
(* Lexer *)

Token(kind, text, start, end, meta) ==
  [kind |-> kind, text |-> text, start |-> start, end |-> end, meta |-> meta]

peek(n) == CharAt(input, i + n)

eof == i >= Len(input)

pushToken(kind, start, end, meta) ==
  Append(tokens, Token(kind, slice(input, start, end), start, end, meta))

\* while (!eof() && isDigit(peek())) i++;  from cursor k
RECURSIVE DigitsEnd(_, _)
DigitsEnd(s, k) ==
  IF k < Len(s) /\ isDigit(CharAt(s, k)) THEN DigitsEnd(s, k + 1) ELSE k

\* The loop over a quoted region, from cursor k just after the opening quote q.
RECURSIVE QuoteEnd(_, _, _)
QuoteEnd(s, k, q) ==
  IF k >= Len(s) THEN k
  ELSE LET cc == CharAt(s, k)
       IN IF cc = "\\" /\ q = "\"" THEN QuoteEnd(s, k + 2, q)
          ELSE IF cc = q THEN k + 1
          ELSE QuoteEnd(s, k + 1, q)

\* WordEnd for which a backslash is a normal character.
RECURSIVE WordEndNoEscape(_, _)
WordEndNoEscape(s, k) ==
  IF k >= Len(s) THEN k
  ELSE LET c == CharAt(s, k)
       IN IF isSpace(c) THEN k
          ELSE IF c = "|" \/ c = "<" \/ c = ">" THEN k
          ELSE IF c = "&" /\ CharAt(s, k + 1) = ">" THEN k
          ELSE IF c = "'" \/ c = "\"" THEN WordEndNoEscape(s, QuoteEnd(s, k + 1, c))
          ELSE WordEndNoEscape(s, k + 1)

\* The word-scanning loop from cursor k: the cursor at which it stops.
RECURSIVE WordEnd(_, _)
WordEnd(s, k) ==
  IF k >= Len(s) THEN k
  ELSE LET c == CharAt(s, k)
       IN IF isSpace(c) THEN k
          ELSE IF c = "|" \/ c = "<" \/ c = ">" THEN k
          ELSE IF c = "&" /\ CharAt(s, k + 1) = ">" THEN k
          ELSE IF c = "'" \/ c = "\"" THEN WordEnd(s, QuoteEnd(s, k + 1, c))
          ELSE IF c = "\\" THEN WordEnd(s, k + 2)
          ELSE WordEnd(s, k + 1)

\* LexBranch that looks for the > right after the first digit only.
LexBranchOneDigit ==
  LET ch == peek(0)
  IN IF isSpace(ch) THEN "space"
     ELSE IF ch = "|" THEN "pipe"
     ELSE IF ch = "&" /\ peek(1) = ">" THEN "ampgt"
     ELSE IF isDigit(ch) /\ peek(1) = ">" THEN "fdgt"
     ELSE IF ch = ">" THEN "gt"
     ELSE IF ch = "<" THEN "lt"
     ELSE "word"

\* Which branch one iteration of lex's main loop takes at the cursor.
LexBranch ==
  LET ch == peek(0)
  IN IF isSpace(ch) THEN "space"
     ELSE IF ch = "|" THEN "pipe"
     ELSE IF ch = "&" /\ peek(1) = ">" THEN "ampgt"
     ELSE IF isDigit(ch) /\ CharAt(input, DigitsEnd(input, i)) = ">" THEN "fdgt"
     ELSE IF ch = ">" THEN "gt"
     ELSE IF ch = "<" THEN "lt"
     ELSE "word"

LexSpace ==
  /\ pc = "lex" /\ ~eof /\ LexBranch = "space"
  /\ i' = i + 1
  /\ UNCHANGED <<input, pc, tokens>>
  /\ UNCHANGED <<parseVars, splitVars, expVars, flagVars>>

LexPipe ==
  /\ pc = "lex" /\ ~eof /\ LexBranch = "pipe"
  /\ tokens' = pushToken("Pipe", i, i + 1, Null)
  /\ i' = i + 1
  /\ UNCHANGED <<input, pc>>
  /\ UNCHANGED <<parseVars, splitVars, expVars, flagVars>>

LexAmpGt ==
  /\ pc = "lex" /\ ~eof /\ LexBranch = "ampgt"
  /\ tokens' = pushToken("AMP_GT", i, i + 2, Null)
  /\ i' = i + 2
  /\ UNCHANGED <<input, pc>>
  /\ UNCHANGED <<parseVars, splitVars, expVars, flagVars>>

\* FdGtScan with dupTarget: Number(dupStr) even when no digit follows the &.
FdGtScanNumberOfEmpty ==
  LET startFd == i
      dEnd    == DigitsEnd(input, i)
      fdStr   == slice(input, startFd, dEnd)
      afterGt == dEnd + 1
  IN IF CharAt(input, afterGt) = ">"
       THEN [end |-> afterGt + 1,
             meta |-> [fd |-> Number(fdStr), append |-> TRUE]]
     ELSE IF CharAt(input, afterGt) = "&"
       THEN LET dupStart == afterGt + 1
                dupEnd   == DigitsEnd(input, dupStart)
                dupStr   == slice(input, dupStart, dupEnd)
            IN [end |-> dupEnd,
                meta |-> [fd |-> Number(fdStr), dup |-> TRUE,
                          dupTarget |-> Num(Number(dupStr))]]
     ELSE [end |-> afterGt,
           meta |-> [fd |-> Number(fdStr), append |-> FALSE]]

\* The cursor and the meta of the FD_GT token that starts at the cursor.
FdGtScan ==
  LET startFd == i
      dEnd    == DigitsEnd(input, i)
      fdStr   == slice(input, startFd, dEnd)
      afterGt == dEnd + 1
  IN IF CharAt(input, afterGt) = ">"
       THEN [end |-> afterGt + 1,
             meta |-> [fd |-> Number(fdStr), append |-> TRUE]]
     ELSE IF CharAt(input, afterGt) = "&"
       THEN LET dupStart == afterGt + 1
                dupEnd   == DigitsEnd(input, dupStart)
                dupStr   == slice(input, dupStart, dupEnd)
            IN [end |-> dupEnd,
                meta |-> [fd |-> Number(fdStr), dup |-> TRUE,
                          dupTarget |-> IF dupStr # <<>> THEN Num(Number(dupStr))
                                        ELSE Null]]
     ELSE [end |-> afterGt,
           meta |-> [fd |-> Number(fdStr), append |-> FALSE]]

LexFdGt ==
  /\ pc = "lex" /\ ~eof /\ LexBranch = "fdgt"
  /\ LET r == FdGtScan
     IN /\ tokens' = pushToken("FD_GT", i, r.end, r.meta)
        /\ i' = r.end
  /\ UNCHANGED <<input, pc>>
  /\ UNCHANGED <<parseVars, splitVars, expVars, flagVars>>

LexGt ==
  /\ pc = "lex" /\ ~eof /\ LexBranch = "gt"
  /\ IF peek(1) = ">"
       THEN /\ tokens' = pushToken("GTGT", i, i + 2, Null)
            /\ i' = i + 2
       ELSE /\ tokens' = pushToken("GT", i, i + 1, Null)
            /\ i' = i + 1
  /\ UNCHANGED <<input, pc>>
  /\ UNCHANGED <<parseVars, splitVars, expVars, flagVars>>

LexLt ==
  /\ pc = "lex" /\ ~eof /\ LexBranch = "lt"
  /\ tokens' = pushToken("LT", i, i + 1, Null)
  /\ i' = i + 1
  /\ UNCHANGED <<input, pc>>
  /\ UNCHANGED <<parseVars, splitVars, expVars, flagVars>>

LexWord ==
  /\ pc = "lex" /\ ~eof /\ LexBranch = "word"
  /\ LET wstart == i
         wend   == WordEnd(input, i)
     IN /\ tokens' = pushToken("Word", wstart, wend, Null)
        /\ i' = wend
  /\ UNCHANGED <<input, pc>>
  /\ UNCHANGED <<parseVars, splitVars, expVars, flagVars>>

\* LexEof with the EOF token placed at the cursor instead of the input's length.
LexEofAtCursor ==
  /\ pc = "lex" /\ eof
  /\ tokens' = pushToken("EOF", i, i, Null)
  /\ pc' = "parse"
  /\ idx' = 0
  /\ UNCHANGED <<input, i, commands, words, redirs, cmdStart, ret, pending, pipeline>>
  /\ UNCHANGED <<splitVars, expVars, flagVars>>

\* The end of lex: the EOF token, and parse goes on with idx = 0.
LexEof ==
  /\ pc = "lex" /\ eof
  /\ tokens' = pushToken("EOF", Len(input), Len(input), Null)
  /\ pc' = "parse"
  /\ idx' = 0
  /\ UNCHANGED <<input, i, commands, words, redirs, cmdStart, ret, pending, pipeline>>
  /\ UNCHANGED <<splitVars, expVars, flagVars>>

-----------------------------------------------------------------------------
(* Word splitter.  The closures pushText, pushVar and scanTextForVars of    *)
(* splitWordIntoParts take the parts pushed so far (ps) and the baseOffset  *)
(* (base) as parameters and give the new parts.                             *)

pushText(ps, base, s, start, end) ==
  IF s = <<>> THEN ps
  ELSE Append(ps, [kind |-> "Text", value |-> s,
                   span |-> makeSpan(base + start, base + end)])

pushVar(ps, base, name, braced, start, end) ==
  Append(ps, [kind |-> "Var", name |-> name, braced |-> braced,
              span |-> makeSpan(base + start, base + end)])

\* while (j < N && raw[j] !== '}') j++;
RECURSIVE BraceEnd(_, _)
BraceEnd(s, j) ==
  IF j < Len(s) /\ CharAt(s, j) # "}" THEN BraceEnd(s, j + 1) ELSE j

\* while (j < N && isVarChar(raw[j])) j++;
RECURSIVE NameEnd(_, _)
NameEnd(s, j) ==
  IF j < Len(s) /\ isVarChar(CharAt(s, j)) THEN NameEnd(s, j + 1) ELSE j

\* while (i < N && raw[i] !== "'") i++;
RECURSIVE SingleQuoteEnd(_, _)
SingleQuoteEnd(s, k) ==
  IF k < Len(s) /\ CharAt(s, k) # "'" THEN SingleQuoteEnd(s, k + 1) ELSE k

\* The loop of the regular run: until a special character or the end.
RECURSIVE RunEnd(_, _)
RunEnd(s, k) ==
  IF k < Len(s) /\ CharAt(s, k) \notin {"'", "\"", "\\", "$"}
    THEN RunEnd(s, k + 1)
    ELSE k

\* The loop of scanTextForVars(text, offset), at cursor p with accStart.
RECURSIVE ScanLoop(_, _, _, _, _, _)
ScanLoop(ps, base, text, offset, p, accStart) ==
  IF p >= Len(text)
    THEN IF accStart < Len(text)
           THEN pushText(ps, base, slice(text, accStart, Len(text)),
                         offset + accStart, offset + Len(text))
           ELSE ps
  ELSE IF CharAt(text, p) = "$"
    THEN LET ps1 == IF p > accStart
                      THEN pushText(ps, base, slice(text, accStart, p),
                                    offset + accStart, offset + p)
                      ELSE ps
         IN IF CharAt(text, p + 1) = "{"
              THEN LET j == BraceEnd(text, p + 2)
                   IN ScanLoop(pushVar(ps1, base, slice(text, p + 2, j), TRUE,
                                       offset + p, offset + j + 1),
                               base, text, offset, j + 1, j + 1)
            ELSE IF isVarStart(CharAt(text, p + 1))
              THEN LET j == NameEnd(text, p + 2)
                   IN ScanLoop(pushVar(ps1, base, slice(text, p + 1, j), FALSE,
                                       offset + p, offset + j),
                               base, text, offset, j, j)
            ELSE ScanLoop(pushText(ps1, base, <<"$">>, offset + p, offset + p + 1),
                          base, text, offset, p + 1, p + 1)
  ELSE ScanLoop(ps, base, text, offset, p + 1, accStart)

scanTextForVars(ps, base, text, offset) ==
  ScanLoop(ps, base, text, offset, 0, 0)

\* EscText that keeps the backslash of an escape other than \" \\ \$.
EscTextKeepsBackslash(esc) ==
  IF esc = NoChar THEN <<>>
  ELSE IF esc \in {"\"", "\\", "$"} THEN <<esc>>
  ELSE <<"\\", esc>>

\* raw[i+1] ?? '' as the text an escape pushes.
EscText(esc) ==
  IF esc = "n" THEN <<"\n">>
  ELSE IF esc = "t" THEN <<"\t">>
  ELSE IF esc = NoChar THEN <<>>
  ELSE <<esc>>

\* The loop of the double-quoted branch at cursor k, with segmentStart: the
\* cursor and the parts when the loop is left (by break or by i >= N).
RECURSIVE DoubleQuoteLoop(_, _, _, _, _)
DoubleQuoteLoop(ps, base, raw, k, segmentStart) ==
  IF k >= Len(raw) THEN [i |-> k, parts |-> ps]
  ELSE
    LET c == CharAt(raw, k)
    IN IF c = "\\"
         THEN LET ps1 == IF k > segmentStart
                           THEN pushText(ps, base, slice(raw, segmentStart, k),
                                         segmentStart, k)
                           ELSE ps
              IN DoubleQuoteLoop(
                   pushText(ps1, base, EscText(CharAt(raw, k + 1)), k, k + 2),
                   base, raw, k + 2, k + 2)
       ELSE IF c = "\""
         THEN [i |-> k + 1,
               parts |-> IF k > segmentStart
                           THEN scanTextForVars(ps, base,
                                  slice(raw, segmentStart, k), segmentStart)
                           ELSE ps]
       ELSE IF c = "$"
         THEN LET ps1 == IF k > segmentStart
                           THEN scanTextForVars(ps, base,
                                  slice(raw, segmentStart, k), segmentStart)
                           ELSE ps
                  next == CharAt(raw, k + 1)
              IN IF next = "{"
                   THEN LET j == BraceEnd(raw, k + 2)
                        IN DoubleQuoteLoop(
                             pushVar(ps1, base, slice(raw, k + 2, j), TRUE, k, j + 1),
                             base, raw, j + 1, j + 1)
                 ELSE IF isVarStart(next)
                   THEN LET j == NameEnd(raw, k + 2)
                        IN DoubleQuoteLoop(
                             pushVar(ps1, base, slice(raw, k + 1, j), FALSE, k, j),
                             base, raw, j, j)
                 ELSE DoubleQuoteLoop(pushText(ps1, base, <<"$">>, k, k + 1),
                                      base, raw, k + 1, k + 1)
       ELSE DoubleQuoteLoop(ps, base, raw, k + 1, segmentStart)

\* The five branches of one iteration of splitWordIntoParts' main loop at
\* cursor k: each gives the new cursor and the new parts.

\* SplitSingleQuoted that scans the inner text for variables, as the
\* double-quoted branch does.
SplitSingleQuotedScanned(ps, base, raw, k) ==
  LET innerStart == k + 1
      e          == SingleQuoteEnd(raw, innerStart)
      inner      == slice(raw, innerStart, e)
  IN [i |-> IF e < Len(raw) /\ CharAt(raw, e) = "'" THEN e + 1 ELSE e,
      parts |-> scanTextForVars(ps, base, inner, innerStart)]

SplitSingleQuoted(ps, base, raw, k) ==
  LET innerStart == k + 1
      e          == SingleQuoteEnd(raw, innerStart)
      inner      == slice(raw, innerStart, e)
  IN [i |-> IF e < Len(raw) /\ CharAt(raw, e) = "'" THEN e + 1 ELSE e,
      parts |-> pushText(ps, base, inner, innerStart, innerStart + Len(inner))]

SplitDoubleQuoted(ps, base, raw, k) ==
  DoubleQuoteLoop(ps, base, raw, k + 1, k + 1)

\* SplitEscape that leaves the cursor on a trailing backslash.
SplitEscapeNoAdvance(ps, base, raw, k) ==
  IF k + 1 < Len(raw)
    THEN [i |-> k + 2, parts |-> pushText(ps, base, <<CharAt(raw, k + 1)>>, k, k + 2)]
    ELSE [i |-> k, parts |-> pushText(ps, base, <<"\\">>, k, k + 1)]

SplitEscape(ps, base, raw, k) ==
  IF k + 1 < Len(raw)
    THEN [i |-> k + 2, parts |-> pushText(ps, base, <<CharAt(raw, k + 1)>>, k, k + 2)]
    ELSE [i |-> k + 1, parts |-> pushText(ps, base, <<"\\">>, k, k + 1)]

SplitDollar(ps, base, raw, k) ==
  LET next == CharAt(raw, k + 1)
  IN IF next = "{"
       THEN LET j == BraceEnd(raw, k + 2)
            IN [i |-> j + 1,
                parts |-> pushVar(ps, base, slice(raw, k + 2, j), TRUE, k, j + 1)]
     ELSE IF isVarStart(next)
       THEN LET j == NameEnd(raw, k + 2)
            IN [i |-> j,
                parts |-> pushVar(ps, base, slice(raw, k + 1, j), FALSE, k, j)]
     ELSE [i |-> k + 1, parts |-> pushText(ps, base, <<"$">>, k, k + 1)]

SplitRun(ps, base, raw, k) ==
  LET e == RunEnd(raw, k)
  IN [i |-> e,
      parts |-> IF e > k THEN pushText(ps, base, slice(raw, k, e), k, e) ELSE ps]

\* One iteration of the main loop of splitWordIntoParts (i < N).
SplitIteration(ps, base, raw, k) ==
  LET ch == CharAt(raw, k)
  IN IF ch = "'" THEN SplitSingleQuoted(ps, base, raw, k)
     ELSE IF ch = "\"" THEN SplitDoubleQuoted(ps, base, raw, k)
     ELSE IF ch = "\\" THEN SplitEscape(ps, base, raw, k)
     ELSE IF ch = "$" THEN SplitDollar(ps, base, raw, k)
     ELSE SplitRun(ps, base, raw, k)

\* A merge pass that merges nothing.
MergePartsKeepsAll(merged, rest) == merged \o rest

\* The merge pass: consecutive Text parts become one.
RECURSIVE MergeParts(_, _)
MergeParts(merged, rest) ==
  IF rest = <<>> THEN merged
  ELSE
    LET part == Head(rest)
        n    == Len(merged)
    IN IF n > 0 /\ merged[n].kind = "Text" /\ part.kind = "Text"
         THEN MergeParts(
                [merged EXCEPT ![n] =
                   [kind |-> "Text", value |-> merged[n].value \o part.value,
                    span |-> makeSpan(merged[n].span.start, part.span.end)]],
                Tail(rest))
         ELSE MergeParts(Append(merged, part), Tail(rest))

\* The main loop of splitWordIntoParts from cursor k: the parts before the merge.
RECURSIVE SplitLoop(_, _, _, _)
SplitLoop(ps, base, raw, k) ==
  IF k >= Len(raw) THEN ps
  ELSE LET r == SplitIteration(ps, base, raw, k)
       IN SplitLoop(r.parts, base, raw, r.i)

\* splitWordIntoParts(raw, baseOffset) as one call.
splitWordIntoParts(raw, baseOffset) ==
  MergeParts(<<>>, SplitLoop(<<>>, baseOffset, raw, 0))

\* makeWord(rawText, startOffset), given the unmerged parts of the splitter.
makeWord(ps, rawText, startOffset) ==
  [kind |-> "Word", parts |-> MergeParts(<<>>, ps),
   span |-> makeSpan(startOffset, startOffset + Len(rawText))]

-----------------------------------------------------------------------------
(* Parser *)

peekTok(n) ==
  IF idx + n < Len(tokens) THEN tokens[idx + n + 1] ELSE tokens[Len(tokens)]

RedirKinds == {"GT", "GTGT", "LT", "AMP_GT", "FD_GT"}

\* RedirOf with the operator's default fd filled in (0 for <, 1 otherwise).
RedirOfWithDefaults(t) ==
  IF t.kind = "AMP_GT" THEN [op |-> "clobber", fd |-> Num(1), dupTargetFd |-> Undefined]
  ELSE IF t.kind = "GT" THEN [op |-> ">", fd |-> Num(1), dupTargetFd |-> Undefined]
  ELSE IF t.kind = "GTGT" THEN [op |-> ">>", fd |-> Num(1), dupTargetFd |-> Undefined]
  ELSE IF t.kind = "LT" THEN [op |-> "<", fd |-> Num(0), dupTargetFd |-> Undefined]
  ELSE IF "dup" \in DOMAIN t.meta
    THEN [op |-> "dup", fd |-> Num(t.meta.fd), dupTargetFd |-> t.meta.dupTarget]
  ELSE [op |-> IF t.meta.append THEN ">>" ELSE ">", fd |-> Num(t.meta.fd),
        dupTargetFd |-> Undefined]

\* op, fd and dupTargetFd of the redirection a redirection token t stands for.
RedirOf(t) ==
  IF t.kind = "AMP_GT" THEN [op |-> "clobber", fd |-> Undefined, dupTargetFd |-> Undefined]
  ELSE IF t.kind = "GT" THEN [op |-> ">", fd |-> Undefined, dupTargetFd |-> Undefined]
  ELSE IF t.kind = "GTGT" THEN [op |-> ">>", fd |-> Undefined, dupTargetFd |-> Undefined]
  ELSE IF t.kind = "LT" THEN [op |-> "<", fd |-> Undefined, dupTargetFd |-> Undefined]
  ELSE IF "dup" \in DOMAIN t.meta
    THEN [op |-> "dup", fd |-> Num(t.meta.fd), dupTargetFd |-> t.meta.dupTarget]
  ELSE [op |-> IF t.meta.append THEN ">>" ELSE ">", fd |-> Num(t.meta.fd),
        dupTargetFd |-> Undefined]

Redirection(r, target, span) ==
  [kind |-> "Redirection", fd |-> r.fd, op |-> r.op, target |-> target,
   dupTargetFd |-> r.dupTargetFd, span |-> span]

PipelineOf(cmds) ==
  [kind |-> "Pipeline", commands |-> cmds, span |-> makeSpan(0, peekTok(0).end)]

\* parse's loop: while (peekTok().kind !== EOF) call parseCommand.
ParseCommandCall ==
  /\ pc = "parse" /\ peekTok(0).kind # "EOF"
  /\ words' = <<>>
  /\ redirs' = <<>>
  /\ cmdStart' = peekTok(0).start
  /\ pc' = "cmd"
  /\ UNCHANGED <<input, idx, commands, ret, pending, pipeline>>
  /\ UNCHANGED <<lexVars, splitVars, expVars, flagVars>>

\* parse's loop ends at the EOF token: parse returns the pipeline.
ParseReturn ==
  /\ pc = "parse" /\ peekTok(0).kind = "EOF"
  /\ pipeline' = PipelineOf(commands)
  /\ pc' = "done"
  /\ UNCHANGED <<input, idx, commands, words, redirs, cmdStart, ret, pending>>
  /\ UNCHANGED <<lexVars, splitVars, expVars, flagVars>>

\* parseCommand breaks at EOF or Pipe and returns; parse pushes the command,
\* and either eats the pipe and loops, or breaks and returns the pipeline.
ParseCommandReturn ==
  /\ pc = "cmd" /\ peekTok(0).kind \in {"EOF", "Pipe"}
  /\ LET cmd == [kind |-> "Command", words |-> words, redirections |-> redirs,
                 span |-> makeSpan(cmdStart, peekTok(0).start)]
     IN /\ commands' = Append(commands, cmd)
        /\ IF peekTok(0).kind = "Pipe"
             THEN /\ idx' = idx + 1
                  /\ pc' = "parse"
                  /\ UNCHANGED pipeline
             ELSE /\ pipeline' = PipelineOf(Append(commands, cmd))
                  /\ pc' = "done"
                  /\ UNCHANGED idx
  /\ UNCHANGED <<input, words, redirs, cmdStart, ret, pending>>
  /\ UNCHANGED <<lexVars, splitVars, expVars, flagVars>>

\* ParseCommandStep that takes the token after a redirection operator as the
\* target without looking at its kind.
ParseCommandStepAnyTarget ==
  /\ pc = "cmd" /\ peekTok(0).kind \notin {"EOF", "Pipe"}
  /\ LET tk == peekTok(0)
     IN IF tk.kind = "Word"
          THEN /\ sraw' = tk.text
               /\ sbase' = tk.start
               /\ ret' = "word"
               /\ pc' = "split"
               /\ si' = 0
               /\ parts' = <<>>
               /\ UNCHANGED <<idx, pending>>
        ELSE IF tk.kind \in RedirKinds
          THEN LET next == peekTok(1)
               IN /\ ret' = "target"
                  /\ pc' = "split"
                  /\ si' = 0
                  /\ parts' = <<>>
                  /\ sraw' = next.text
                  /\ sbase' = next.start
                  /\ pending' = [r |-> RedirOf(tk),
                                 span |-> makeSpan(tk.start, next.end)]
                  /\ idx' = idx + 2
        ELSE /\ idx' = idx + 1
             /\ UNCHANGED <<pc, ret, pending, sraw, sbase, si, parts>>
  /\ UNCHANGED <<input, commands, words, redirs, cmdStart, pipeline>>
  /\ UNCHANGED <<lexVars, expVars, flagVars>>

\* ParseCommandStep that eats the operator but not the Word it took as target.
ParseCommandStepTargetNotEaten ==
  /\ pc = "cmd" /\ peekTok(0).kind \notin {"EOF", "Pipe"}
  /\ LET tk == peekTok(0)
     IN IF tk.kind = "Word"
          THEN /\ sraw' = tk.text
               /\ sbase' = tk.start
               /\ ret' = "word"
               /\ pc' = "split"
               /\ si' = 0
               /\ parts' = <<>>
               /\ UNCHANGED <<idx, pending>>
        ELSE IF tk.kind \in RedirKinds
          THEN LET next == peekTok(1)
               IN /\ ret' = "target"
                  /\ pc' = "split"
                  /\ si' = 0
                  /\ parts' = <<>>
                  /\ IF next.kind # "Word"
                       THEN /\ sraw' = <<>>
                            /\ sbase' = tk.end
                            /\ pending' = [r |-> RedirOf(tk),
                                           span |-> makeSpan(tk.start, tk.end)]
                            /\ idx' = idx + 1
                       ELSE /\ sraw' = next.text
                            /\ sbase' = next.start
                            /\ pending' = [r |-> RedirOf(tk),
                                           span |-> makeSpan(tk.start, next.end)]
                            /\ idx' = idx + 1
        ELSE /\ idx' = idx + 1
             /\ UNCHANGED <<pc, ret, pending, sraw, sbase, si, parts>>
  /\ UNCHANGED <<input, commands, words, redirs, cmdStart, pipeline>>
  /\ UNCHANGED <<lexVars, expVars, flagVars>>

\* One iteration of parseCommand's loop at a token that is neither EOF nor
\* Pipe, up to its call of makeWord (a skipped token calls nothing).
ParseCommandStep ==
  /\ pc = "cmd" /\ peekTok(0).kind \notin {"EOF", "Pipe"}
  /\ LET tk == peekTok(0)
     IN IF tk.kind = "Word"
          THEN /\ sraw' = tk.text
               /\ sbase' = tk.start
               /\ ret' = "word"
               /\ pc' = "split"
               /\ si' = 0
               /\ parts' = <<>>
               /\ UNCHANGED <<idx, pending>>
        ELSE IF tk.kind \in RedirKinds
          THEN LET next == peekTok(1)
               IN /\ ret' = "target"
                  /\ pc' = "split"
                  /\ si' = 0
                  /\ parts' = <<>>
                  /\ IF next.kind # "Word"
                       THEN /\ sraw' = <<>>
                            /\ sbase' = tk.end
                            /\ pending' = [r |-> RedirOf(tk),
                                           span |-> makeSpan(tk.start, tk.end)]
                            /\ idx' = idx + 1
                       ELSE /\ sraw' = next.text
                            /\ sbase' = next.start
                            /\ pending' = [r |-> RedirOf(tk),
                                           span |-> makeSpan(tk.start, next.end)]
                            /\ idx' = idx + 2
        ELSE /\ idx' = idx + 1
             /\ UNCHANGED <<pc, ret, pending, sraw, sbase, si, parts>>
  /\ UNCHANGED <<input, commands, words, redirs, cmdStart, pipeline>>
  /\ UNCHANGED <<lexVars, expVars, flagVars>>

\* One iteration of the main loop of splitWordIntoParts.
SplitStep ==
  /\ pc = "split" /\ si < Len(sraw)
  /\ LET r == SplitIteration(parts, sbase, sraw, si)
     IN /\ si' = r.i
        /\ parts' = r.parts
  /\ UNCHANGED <<input, pc, sraw, sbase>>
  /\ UNCHANGED <<lexVars, parseVars, expVars, flagVars>>

\* SplitReturn that eats the word's token a second time.
SplitReturnEatsTwice ==
  /\ pc = "split" /\ si >= Len(sraw)
  /\ LET w == makeWord(parts, sraw, sbase)
     IN IF ret = "word"
          THEN /\ words' = Append(words, w)
               /\ idx' = idx + 2
               /\ UNCHANGED redirs
          ELSE /\ redirs' = Append(redirs, Redirection(pending.r, w, pending.span))
               /\ UNCHANGED <<words, idx>>
  /\ pc' = "cmd"
  /\ UNCHANGED <<input, commands, cmdStart, ret, pending, pipeline>>
  /\ UNCHANGED <<lexVars, splitVars, expVars, flagVars>>

\* splitWordIntoParts merges and returns, makeWord returns, and parseCommand
\* pushes the word (and eats its token) or the redirection.
SplitReturn ==
  /\ pc = "split" /\ si >= Len(sraw)
  /\ LET w == makeWord(parts, sraw, sbase)
     IN IF ret = "word"
          THEN /\ words' = Append(words, w)
               /\ idx' = idx + 1
               /\ UNCHANGED redirs
          ELSE /\ redirs' = Append(redirs, Redirection(pending.r, w, pending.span))
               /\ UNCHANGED <<words, idx>>
  /\ pc' = "cmd"
  /\ UNCHANGED <<input, commands, cmdStart, ret, pending, pipeline>>
  /\ UNCHANGED <<lexVars, splitVars, expVars, flagVars>>

-----------------------------------------------------------------------------
(* Expander *)

DigitChar == <<"0", "1", "2", "3", "4", "5", "6", "7", "8", "9">>

RECURSIVE NumToStr(_)
NumToStr(n) ==
  IF n < 10 THEN <<DigitChar[n + 1]>>
  ELSE NumToStr(n \div 10) \o <<DigitChar[(n % 10) + 1]>>

\* String(val) for a val that is neither undefined nor null.
String(val) ==
  IF val.t = "number" THEN NumToStr(val.v) ELSE val.v

\* What a context written as an object literal inherits from Object.prototype
\* (two of its properties).
ObjectPrototype ==
  <<"c", "o", "n", "s", "t", "r", "u", "c", "t", "o", "r">> :>
     Fn(<<"f", "u", "n", "c", "t", "i", "o", "n", " ", "O", "b", "j", "e", "c", "t", "(", ")", " ", "{", " ", "[", "n", "a", "t", "i", "v", "e", " ", "c", "o", "d", "e", "]", " ", "}">>)
  @@
  <<"t", "o", "S", "t", "r", "i", "n", "g">> :>
     Fn(<<"f", "u", "n", "c", "t", "i", "o", "n", " ", "t", "o", "S", "t", "r", "i", "n", "g", "(", ")", " ", "{", " ", "[", "n", "a", "t", "i", "v", "e", " ", "c", "o", "d", "e", "]", " ", "}">>)

\* ctx[name]: the context's own property, else the inherited one, else undefined.
Lookup(c, name) ==
  IF name \in DOMAIN c THEN c[name]
  ELSE IF name \in DOMAIN ObjectPrototype THEN ObjectPrototype[name]
  ELSE Undefined

RECURSIVE ExpandParts(_, _, _)
ExpandParts(out, ps, c) ==
  IF ps = <<>> THEN out
  ELSE
    LET p == Head(ps)
    IN IF p.kind = "Text" THEN ExpandParts(out \o p.value, Tail(ps), c)
       ELSE IF p.kind = "Var"
         THEN LET val == Lookup(c, p.name)
              IN ExpandParts(
                   out \o (IF val.t \in {"undefined", "null"} THEN <<>> ELSE String(val)),
                   Tail(ps), c)
       ELSE ExpandParts(out, Tail(ps), c)

expandWord(word, c) == ExpandParts(<<>>, word.parts, c)

buildArgv(command, c) ==
  [k \in 1..Len(command.words) |-> expandWord(command.words[k], c)]

-----------------------------------------------------------------------------
(* Inputs *)

Alphabet == {" ", "|", "<", ">", "&", "2", "a", "'", "\"", "\\", "$", "{", "}"}

BoundedStrings == UNION {[1..n -> Alphabet] : n \in 0..MaxLen}

\* a > out.txt
SampleRedirect ==
  <<"a", " ", ">", " ", "o", "u", "t", ".", "t", "x", "t">>

\* cat f 2>&1
SampleDup ==
  <<"c", "a", "t", " ", "f", " ", "2", ">", "&", "1">>

\* mkdir --parents --mode=0755 dir
SampleMkdir ==
  <<"m", "k", "d", "i", "r", " ", "-", "-", "p", "a", "r", "e", "n", "t", "s", " ", "-", "-", "m", "o", "d", "e", "=", "0", "7", "5", "5", " ", "d", "i", "r">>

\* $HOME
SampleHome ==
  <<"$", "H", "O", "M", "E">>

\* $MISSING
SampleMissing ==
  <<"$", "M", "I", "S", "S", "I", "N", "G">>

\* ${USER}!
SampleBraced ==
  <<"$", "{", "U", "S", "E", "R", "}", "!">>

\* '$X'
SampleSingleQuoted ==
  <<"'", "$", "X", "'">>

\* "say \"hi\""
SampleSay ==
  <<"\"", "s", "a", "y", " ", "\\", "\"", "h", "i", "\\", "\"", "\"">>

\* "literal $ notvar"
SampleLiteralDollar ==
  <<"\"", "l", "i", "t", "e", "r", "a", "l", " ", "$", " ", "n", "o", "t", "v", "a", "r", "\"">>

\* a | b | c
SamplePipes ==
  <<"a", " ", "|", " ", "b", " ", "|", " ", "c">>

\* echo "a | b > c"
SampleQuotedOperators ==
  <<"e", "c", "h", "o", " ", "\"", "a", " ", "|", " ", "b", " ", ">", " ", "c", "\"">>

\* echo 2> f
SampleFdRedirect ==
  <<"e", "c", "h", "o", " ", "2", ">", " ", "f">>

\* echo 2 > f
SampleDigitWord ==
  <<"e", "c", "h", "o", " ", "2", " ", ">", " ", "f">>

\* "a$X b
SampleOpenDouble ==
  <<"\"", "a", "$", "X", " ", "b">>

\* 'a$X b
SampleOpenSingle ==
  <<"'", "a", "$", "X", " ", "b">>

\* 12>& |a
SampleDupNoTarget ==
  <<"1", "2", ">", "&", " ", "|", "a">>

\* 2>&1 file
SampleDupThenWord ==
  <<"2", ">", "&", "1", " ", "f", "i", "l", "e">>

\* a 2>>f <\tg
SampleAppend ==
  <<"a", " ", "2", ">", ">", "f", " ", "<", "\t", "g">>

\* $constructor
SampleConstructor ==
  <<"$", "c", "o", "n", "s", "t", "r", "u", "c", "t", "o", "r">>

\* cat input.txt 2>&1 | grep error &> combined.log
SampleSelfTest ==
  <<"c", "a", "t", " ", "i", "n", "p", "u", "t", ".", "t", "x", "t", " ", "2", ">", "&", "1", " ", "|", " ", "g", "r", "e", "p", " ", "e", "r", "r", "o", "r", " ", "&", ">", " ", "c", "o", "m", "b", "i", "n", "e", "d", ".", "l", "o", "g">>

\* "\n\t\$a\\\"b"
SampleEscapes ==
  <<"\"", "\\", "n", "\\", "t", "\\", "$", "a", "\\", "\\", "\\", "\"", "b", "\"">>

\* "${\n}"
SampleBraceEscape ==
  <<"\"", "$", "{", "\\", "n", "}", "\"">>

\* echo 2
SampleEchoDigit ==
  <<"e", "c", "h", "o", " ", "2">>

Samples ==
  {SampleRedirect,
   SampleDup,
   SampleMkdir,
   SampleHome,
   SampleMissing,
   SampleBraced,
   SampleSingleQuoted,
   SampleSay,
   SampleLiteralDollar,
   SamplePipes,
   SampleQuotedOperators,
   SampleFdRedirect,
   SampleDigitWord,
   SampleOpenDouble,
   SampleOpenSingle,
   SampleDupNoTarget,
   SampleDupThenWord,
   SampleAppend,
   SampleConstructor,
   SampleSelfTest,
   SampleEscapes,
   SampleBraceEscape,
   SampleEchoDigit}

Inputs == BoundedStrings \cup Samples

NameHOME == <<"H", "O", "M", "E">>
NameUSER == <<"U", "S", "E", "R">>
NameX    == <<"X">>
NameA    == <<"a">>

EmptyContext == [n \in {} |-> Undefined]

Contexts ==
  { EmptyContext,
    NameHOME :> Str(<<"/", "h">>),
    NameX :> Str(<<"y">>) @@ NameA :> Str(<<"$", "a">>),
    NameUSER :> Str(<<"b", "o", "b">>) @@ NameX :> Null @@ NameA :> Num(70),
    NameA :> Undefined @@ <<>> :> Str(<<"e">>) }

\* buildArgv(cmd, ctx) for every command of the pipeline, as the self-test does.
Expand ==
  /\ pc = "done"
  /\ \E c \in Contexts :
       /\ ctx' = c
       /\ argv' = [k \in 1..Len(pipeline.commands) |-> buildArgv(pipeline.commands[k], c)]
  /\ pc' = "expanded"
  /\ UNCHANGED <<input>>
  /\ UNCHANGED <<lexVars, parseVars, splitVars, flagVars>>

-----------------------------------------------------------------------------
(* parse-flags.js and the start of bixie's main *)

Bool(b) == [t |-> "boolean", v |-> b]
Arr(a)  == [t |-> "array", v |-> a]

\* A number with a fraction, kept as its whole part, sign and fraction digits:
\* Number("1.50") is 1.5, Number("1.0") is 1.
Decimal(neg, whole, frac) ==
  IF frac = <<>> THEN Num(IF neg THEN 0 - whole ELSE whole)
  ELSE [t |-> "number", v |-> whole, neg |-> neg, frac |-> frac]

startsWith(s, prefix) ==
  Len(s) >= Len(prefix) /\ SubSeq(s, 1, Len(prefix)) = prefix

\* s.indexOf(ch), 0-based, -1 when absent.
indexOf(s, ch) ==
  IF \E k \in 1..Len(s) : s[k] = ch
    THEN (CHOOSE k \in 1..Len(s) :
            s[k] = ch /\ \A j \in 1..(k - 1) : s[j] # ch) - 1
    ELSE -1

isFlag(s) == startsWith(s, <<"-">>)

IsDigits(s) == s # <<>> /\ \A k \in 1..Len(s) : isDigit(s[k])

RECURSIVE StripZeros(_)
StripZeros(s) ==
  IF s # <<>> /\ s[Len(s)] = "0" THEN StripZeros(SubSeq(s, 1, Len(s) - 1)) ELSE s

coerce(value) ==
  LET neg  == startsWith(value, <<"-">>)
      body == IF neg THEN SubSeq(value, 2, Len(value)) ELSE value
      dot  == indexOf(body, ".")
  IN IF value = <<"t", "r", "u", "e">> THEN Bool(TRUE)
     ELSE IF value = <<"f", "a", "l", "s", "e">> THEN Bool(FALSE)
     ELSE IF IsDigits(body) THEN Num(IF neg THEN 0 - Number(body) ELSE Number(body))
     ELSE IF /\ dot # -1
             /\ IsDigits(slice(body, 0, dot))
             /\ IsDigits(slice(body, dot + 1, Len(body)))
       THEN Decimal(neg, Number(slice(body, 0, dot)),
                    StripZeros(slice(body, dot + 1, Len(body))))
     ELSE Str(value)

KeyPositional == <<"p", "o", "s", "i", "t", "i", "o", "n", "a", "l">>
KeyProto      == <<"_", "_", "p", "r", "o", "t", "o", "_", "_">>
KeyHelp       == <<"h", "e", "l", "p">>
KeyH          == <<"h">>
KeyMuted      == <<"m", "u", "t", "e", "d">>

\* assign(obj, key, value); obj is a function from its own keys to values.
\* Storing a primitive under __proto__ changes nothing.
assign(obj, key, value) ==
  IF key \in DOMAIN obj
    THEN [obj EXCEPT ![key] =
            Arr((IF @.t = "array" THEN @.v ELSE <<@>>) \o <<value>>)]
  ELSE IF key = KeyProto THEN obj
  ELSE obj @@ (key :> value)

\* for (const k of shorts) assign(result, k, true)
RECURSIVE assignShorts(_, _)
assignShorts(obj, shorts) ==
  IF shorts = <<>> THEN obj
  ELSE assignShorts(assign(obj, <<Head(shorts)>>, Bool(TRUE)), Tail(shorts))

\* obj.key for a key Object.prototype does not have.
Get(obj, key) == IF key \in DOMAIN obj THEN obj[key] ELSE Undefined

\* JavaScript's truthiness.
Truthy(val) ==
  IF val.t = "boolean" THEN val.v
  ELSE IF val.t = "number" THEN "frac" \in DOMAIN val \/ val.v # 0
  ELSE IF val.t = "string" THEN val.v # <<>>
  ELSE val.t \in {"array", "function"}

\* The token at the cursor.
token == cliArgs[cliI + 1]

\* next !== undefined && !isFlag(next)
NextIsValue == cliI + 1 < Len(cliArgs) /\ ~isFlag(cliArgs[cliI + 2])

\* --name=value
FlagLongEq ==
  /\ cliPc = "flags" /\ cliI < Len(cliArgs)
  /\ startsWith(token, <<"-", "-">>)
  /\ indexOf(token, "=") # -1
  /\ LET eq == indexOf(token, "=")
     IN result' = assign(result, slice(token, 2, eq),
                         coerce(slice(token, eq + 1, Len(token))))
  /\ cliI' = cliI + 1
  /\ UNCHANGED <<cliArgs, options, cliPc>>
  /\ UNCHANGED <<input, pc, lexVars, parseVars, splitVars, expVars>>

\* --name, alone or with the next argument as its value
FlagLong ==
  /\ cliPc = "flags" /\ cliI < Len(cliArgs)
  /\ startsWith(token, <<"-", "-">>)
  /\ indexOf(token, "=") = -1
  /\ LET key == slice(token, 2, Len(token))
     IN IF NextIsValue
          THEN /\ result' = assign(result, key, coerce(cliArgs[cliI + 2]))
               /\ cliI' = cliI + 2
          ELSE /\ result' = assign(result, key, Bool(TRUE))
               /\ cliI' = cliI + 1
  /\ UNCHANGED <<cliArgs, options, cliPc>>
  /\ UNCHANGED <<input, pc, lexVars, parseVars, splitVars, expVars>>

\* -k, alone or with the next argument as its value
FlagShort ==
  /\ cliPc = "flags" /\ cliI < Len(cliArgs)
  /\ ~startsWith(token, <<"-", "-">>)
  /\ startsWith(token, <<"-">>) /\ Len(token) = 2
  /\ IF NextIsValue
       THEN /\ result' = assign(result, <<token[2]>>, coerce(cliArgs[cliI + 2]))
            /\ cliI' = cliI + 2
       ELSE /\ result' = assign(result, <<token[2]>>, Bool(TRUE))
            /\ cliI' = cliI + 1
  /\ UNCHANGED <<cliArgs, options, cliPc>>
  /\ UNCHANGED <<input, pc, lexVars, parseVars, splitVars, expVars>>

\* -abc
FlagShorts ==
  /\ cliPc = "flags" /\ cliI < Len(cliArgs)
  /\ ~startsWith(token, <<"-", "-">>)
  /\ startsWith(token, <<"-">>) /\ Len(token) > 2
  /\ result' = assignShorts(result, Tail(token))
  /\ cliI' = cliI + 1
  /\ UNCHANGED <<cliArgs, options, cliPc>>
  /\ UNCHANGED <<input, pc, lexVars, parseVars, splitVars, expVars>>

\* result.positional.push(coerce(token))
FlagPositional ==
  /\ cliPc = "flags" /\ cliI < Len(cliArgs)
  /\ ~(startsWith(token, <<"-">>) /\ Len(token) > 1)
  /\ result' = [result EXCEPT ![KeyPositional] = Arr(@.v \o <<coerce(token)>>)]
  /\ cliI' = cliI + 1
  /\ UNCHANGED <<cliArgs, options, cliPc>>
  /\ UNCHANGED <<input, pc, lexVars, parseVars, splitVars, expVars>>

\* !flags.positional.length || flags.help || flags.h
WantsHelp(flags) ==
  \/ Len(flags[KeyPositional].v) = 0
  \/ Truthy(Get(flags, KeyHelp))
  \/ Truthy(Get(flags, KeyH))

\* bixie's defaults object.
defaults ==
  <<"t", "i", "t", "l", "e">>
      :> Str(<<"M", "e", "d", "i", "a", " ", "G", "a", "l", "l", "e", "r", "y">>)
  @@ <<"d", "i", "s", "t">> :> Str(<<".", "/", "d", "i", "s", "t">>)
  @@ <<"u", "i">> :> Str(<<"u", "i">>)
  @@ <<"a", "u", "t", "o", "p", "l", "a", "y">> :> Bool(TRUE)
  @@ KeyMuted :> Bool(FALSE)
  @@ <<"l", "o", "o", "p">> :> Bool(TRUE)
  @@ <<"c", "o", "n", "t", "r", "o", "l", "s">> :> Bool(TRUE)
  @@ <<"p", "e", "r", "-", "p", "a", "g", "e">> :> Num(5)
  @@ <<"t", "h", "r", "e", "s", "h", "o", "l", "d">> :> Decimal(FALSE, 0, <<"5">>)

\* parseFlags has returned and bixie prints its help and exits.
MainHelp ==
  /\ cliPc = "flags" /\ cliI >= Len(cliArgs)
  /\ WantsHelp(result)
  /\ cliPc' = "help"
  /\ UNCHANGED <<cliArgs, cliI, result, options>>
  /\ UNCHANGED <<input, pc, lexVars, parseVars, splitVars, expVars>>

\* parseFlags has returned and bixie goes on: Object.assign(defaults, flags).
MainRun ==
  /\ cliPc = "flags" /\ cliI >= Len(cliArgs)
  /\ ~WantsHelp(result)
  /\ options' = result @@ defaults
  /\ cliPc' = "run"
  /\ UNCHANGED <<cliArgs, cliI, result>>
  /\ UNCHANGED <<input, pc, lexVars, parseVars, splitVars, expVars>>

\* The command-line arguments tried.
MaxArgs == 2

TokMuted == <<"-", "-", "m", "u", "t", "e", "d">>
TokNoLoop == <<"-", "-", "n", "o", "-", "l", "o", "o", "p">>
TokTitleEq == <<"-", "-", "t", "i", "t", "l", "e", "=", "x">>
TokHelp == <<"-", "-", "h", "e", "l", "p">>
TokH == <<"-", "h">>
TokAb == <<"-", "a", "b">>
SourceDir == <<"c", "l", "i", "p", "s">>
TokFive == <<"5">>
TokTrue == <<"t", "r", "u", "e">>
TokDecimal == <<"1", ".", "5", "0">>

FlagTokens ==
  {TokMuted, TokNoLoop, TokTitleEq, TokHelp, TokH, TokAb, SourceDir, TokFive, TokTrue, TokDecimal}

ArgLists == UNION {[1..n -> FlagTokens] : n \in 0..MaxArgs}

-----------------------------------------------------------------------------
(* Specification *)

\* bixie is not running.
FlagsOff ==
  /\ cliArgs = <<>>
  /\ cliI = 0
  /\ result = (KeyPositional :> Arr(<<>>))
  /\ options = defaults
  /\ cliPc = "off"

\* parse is not running.
MiniShOff ==
  /\ input = <<>>
  /\ pc = "off"
  /\ i = 0
  /\ tokens = <<>>
  /\ idx = 0
  /\ commands = <<>>
  /\ words = <<>>
  /\ redirs = <<>>
  /\ cmdStart = 0
  /\ sraw = <<>>
  /\ sbase = 0
  /\ si = 0
  /\ parts = <<>>
  /\ ret = "word"
  /\ pending = [r |-> [op |-> "", fd |-> Undefined, dupTargetFd |-> Undefined],
                span |-> makeSpan(0, 0)]
  /\ pipeline = [kind |-> "Pipeline", commands |-> <<>>, span |-> makeSpan(0, 0)]
  /\ ctx = EmptyContext
  /\ argv = <<>>

Init ==
  /\ input \in Inputs
  /\ pc = "lex"
  /\ i = 0
  /\ tokens = <<>>
  /\ idx = 0
  /\ commands = <<>>
  /\ words = <<>>
  /\ redirs = <<>>
  /\ cmdStart = 0
  /\ sraw = <<>>
  /\ sbase = 0
  /\ si = 0
  /\ parts = <<>>
  /\ ret = "word"
  /\ pending = [r |-> [op |-> "", fd |-> Undefined, dupTargetFd |-> Undefined],
                span |-> makeSpan(0, 0)]
  /\ pipeline = [kind |-> "Pipeline", commands |-> <<>>, span |-> makeSpan(0, 0)]
  /\ ctx = EmptyContext
  /\ argv = <<>>
  /\ FlagsOff

Next ==
  \/ LexSpace
  \/ LexPipe
  \/ LexAmpGt
  \/ LexFdGt
  \/ LexGt
  \/ LexLt
  \/ LexWord
  \/ LexEof
  \/ ParseCommandCall
  \/ ParseReturn
  \/ ParseCommandReturn
  \/ ParseCommandStep
  \/ SplitStep
  \/ SplitReturn
  \/ Expand

Spec == Init /\ [][Next]_vars

\* bixie started with the arguments cliArgs.
InitFlags ==
  /\ MiniShOff
  /\ cliArgs \in ArgLists
  /\ cliI = 0
  /\ result = (KeyPositional :> Arr(<<>>))
  /\ options = defaults
  /\ cliPc = "flags"

NextFlags ==
  \/ FlagLongEq
  \/ FlagLong
  \/ FlagShort
  \/ FlagShorts
  \/ FlagPositional
  \/ MainHelp
  \/ MainRun

SpecFlags == InitFlags /\ [][NextFlags]_vars

-----------------------------------------------------------------------------
(* Properties *)

Range(f) == {f[k] : k \in DOMAIN f}

\* The positions <<c, r>> of the redirections of the returned pipeline.
RedirPos ==
  UNION {{<<c, r>> : r \in 1..Len(pipeline.commands[c].redirections)} :
           c \in 1..Len(pipeline.commands)}

RedirAt(p) == pipeline.commands[p[1]].redirections[p[2]]

\* The positions <<c, w>> of the words of the returned pipeline.
WordPos ==
  UNION {{<<c, w>> : w \in 1..Len(pipeline.commands[c].words)} :
           c \in 1..Len(pipeline.commands)}

WordAt(p) == pipeline.commands[p[1]].words[p[2]]

\* The operator token a redirection was built from: the one at its span's start.
OpTokenOf(red) ==
  CHOOSE t \in Range(tokens) : t.kind \in RedirKinds /\ t.start = red.span.start

\* The digits a token's text begins with.
DigitPrefix(text) == slice(text, 0, DigitsEnd(text, 0))

\* C1 (as claimed): at the return of parse, a redirection of an operator
\* without numeric prefix has fd 0 for < and fd 1 for > and >>, and a numeric
\* prefix gives fd its value.
C1_DefaultFdAsClaimed ==
  pc = "done" =>
    \A p \in RedirPos :
      LET red == RedirAt(p)
          t   == OpTokenOf(red)
      IN /\ t.kind = "LT" => red.fd = Num(0)
         /\ t.kind \in {"GT", "GTGT"} => red.fd = Num(1)
         /\ t.kind = "FD_GT" => red.fd = Num(Number(DigitPrefix(t.text)))

\* C1 (amended): at the return of parse, a redirection of an operator without
\* numeric prefix (<, >, >>, &>) has op '<', '>', '>>', 'clobber' and an
\* undefined fd; a numeric prefix gives fd its value; "a > out.txt" gives one
\* redirection with op '>', fd undefined and a target that expands to out.txt.
C1_FdOnlyFromPrefix ==
  pc = "done" =>
    /\ \A p \in RedirPos :
         LET red == RedirAt(p)
             t   == OpTokenOf(red)
         IN /\ t.kind = "LT" => red.op = "<" /\ red.fd = Undefined
            /\ t.kind = "GT" => red.op = ">" /\ red.fd = Undefined
            /\ t.kind = "GTGT" => red.op = ">>" /\ red.fd = Undefined
            /\ t.kind = "AMP_GT" => red.op = "clobber" /\ red.fd = Undefined
            /\ t.kind = "FD_GT" => red.fd = Num(Number(DigitPrefix(t.text)))
    /\ input = SampleRedirect =>
         /\ RedirPos = {<<1, 1>>}
         /\ RedirAt(<<1, 1>>).op = ">"
         /\ RedirAt(<<1, 1>>).fd = Undefined
         /\ \A c \in Contexts :
              expandWord(RedirAt(<<1, 1>>).target, c) = <<"o", "u", "t", ".", "t", "x", "t">>

\* C1 witness: parse("a > out.txt") has returned with a redirection.
C1_Witness ==
  pc = "done" /\ input = SampleRedirect /\ RedirPos # {}

HasNonSpace(s) == \E k \in 1..Len(s) : ~isSpace(s[k])

\* The number of | in s from 0-based k on that are outside quotes and not
\* escaped; mode is "top", "sq" (in single quotes) or "dq" (in double quotes).
RECURSIVE TopLevelPipes(_, _, _)
TopLevelPipes(s, k, mode) ==
  IF k >= Len(s) THEN 0
  ELSE
    LET c == s[k + 1]
    IN IF mode = "top"
         THEN IF c = "\\" THEN TopLevelPipes(s, k + 2, "top")
              ELSE IF c = "'" THEN TopLevelPipes(s, k + 1, "sq")
              ELSE IF c = "\"" THEN TopLevelPipes(s, k + 1, "dq")
              ELSE (IF c = "|" THEN 1 ELSE 0) + TopLevelPipes(s, k + 1, "top")
       ELSE IF mode = "sq"
         THEN TopLevelPipes(s, k + 1, IF c = "'" THEN "top" ELSE "sq")
       ELSE IF c = "\\" THEN TopLevelPipes(s, k + 2, "dq")
       ELSE TopLevelPipes(s, k + 1, IF c = "\"" THEN "top" ELSE "dq")

\* C2 (as claimed): for an input with a non-whitespace character, parse returns
\* at least one command, and as many commands as top-level pipes plus one.
C2_CommandCountAsClaimed ==
  (pc = "done" /\ HasNonSpace(input)) =>
    /\ Len(pipeline.commands) >= 1
    /\ Len(pipeline.commands) = TopLevelPipes(input, 0, "top") + 1

\* Raw text that is an opening double quote followed by characters none of
\* which is a double quote, a backslash or a brace: an unterminated region.
OpenDoubleQuoted(raw) ==
  /\ Len(raw) >= 1
  /\ raw[1] = "\""
  /\ \A k \in 2..Len(raw) : raw[k] \notin {"\"", "\\", "{"}

\* Kind and text of every part, without the spans.
PartValues(ps) ==
  [k \in 1..Len(ps) |->
     IF ps[k].kind = "Text" THEN <<"Text", ps[k].value>> ELSE <<"Var", ps[k].name>>]

\* C3 (as claimed): when splitWordIntoParts returns for a raw text that is an
\* unterminated double-quoted region, its parts are those of the same region
\* closed at the end of the text: no character after the opening quote is lost.
C3_UnterminatedDoubleQuoteAsClaimed ==
  (pc = "split" /\ si >= Len(sraw) /\ OpenDoubleQuoted(sraw)) =>
    PartValues(MergeParts(<<>>, parts))
      = PartValues(splitWordIntoParts(sraw \o <<"\"">>, sbase))

\* C4: while lex runs no token is EOF; once lex has returned, the last token
\* and only the last token is EOF, and its span is [len, len].
C4_EofLast ==
  /\ pc = "lex" => \A k \in 1..Len(tokens) : tokens[k].kind # "EOF"
  /\ pc # "lex" =>
       /\ Len(tokens) >= 1
       /\ tokens[Len(tokens)].kind = "EOF"
       /\ tokens[Len(tokens)].start = Len(input)
       /\ tokens[Len(tokens)].end = Len(input)
       /\ tokens[Len(tokens)].text = <<>>
       /\ \A k \in 1..(Len(tokens) - 1) : tokens[k].kind # "EOF"

\* C4 witness: lex has just returned at least three tokens for an input whose
\* last word ran the cursor past the end (a trailing backslash).
C4_Witness ==
  pc = "parse" /\ idx = 0 /\ Len(tokens) >= 3 /\ i > Len(input)

\* C5: every iteration of lex's main loop, of splitWordIntoParts' main loop
\* and of parseCommand's loop strictly advances its cursor (i, i, idx) and
\* keeps it within one past the end; a pipe eaten by parse advances idx; and
\* until buildArgv has returned some step is always possible (nothing raises,
\* nothing is stuck).
C5_Terminates ==
  /\ [][ /\ (pc = "lex" /\ pc' = "lex") => (i' > i /\ i' <= Len(input) + 1)
         /\ (pc = "split" /\ pc' = "split") => (si' > si /\ si' <= Len(sraw) + 1)
         /\ (pc = "cmd" /\ pc' = "cmd") => (idx' > idx /\ idx' < Len(tokens))
         /\ (pc = "cmd" /\ pc' = "split" /\ ret' = "target")
              => (idx' > idx /\ idx' < Len(tokens))
         /\ (pc = "split" /\ pc' = "cmd" /\ ret = "word")
              => (idx' > idx /\ idx' < Len(tokens))
         /\ (pc = "cmd" /\ pc' = "parse") => (idx' > idx /\ idx' < Len(tokens))
       ]_vars
  /\ [](pc # "expanded" => ENABLED Next)

\* C5 witness: parse has returned for an input with an unterminated quote, an
\* unterminated ${ or a trailing backslash (a cursor went one past the end).
C5_Witness ==
  /\ pc = "done"
  /\ \/ i > Len(input)
     \/ \E p \in WordPos :
          \E k \in 1..Len(WordAt(p).parts) :
            WordAt(p).parts[k].span.end > Len(input)

\* The raw text of an AST word: the input over its span.
RawOf(w) == slice(input, w.span.start, w.span.end)

\* C6 (as claimed): parse("mkdir --parents --mode=0755 dir") returns one
\* command with three words and no redirection.
C6_MkdirThreeWordsAsClaimed ==
  (pc = "done" /\ input = SampleMkdir) =>
    /\ Len(pipeline.commands) = 1
    /\ Len(pipeline.commands[1].words) = 3
    /\ Len(pipeline.commands[1].redirections) = 0

\* C6 (amended): parse("mkdir --parents --mode=0755 dir") returns one command
\* with four words (mkdir, --parents, --mode=0755, dir), each a single Text
\* part holding the word's text, and no redirection; and in every input a word
\* without quote, backslash or $ is a single Text part holding its raw text.
C6_MkdirFourWords ==
  pc = "done" =>
    /\ input = SampleMkdir =>
         /\ Len(pipeline.commands) = 1
         /\ Len(pipeline.commands[1].redirections) = 0
         /\ [k \in 1..Len(pipeline.commands[1].words) |->
               PartValues(pipeline.commands[1].words[k].parts)]
              = << << <<"Text", slice(SampleMkdir, 0, 5)>> >>,
                   << <<"Text", slice(SampleMkdir, 6, 15)>> >>,
                   << <<"Text", slice(SampleMkdir, 16, 27)>> >>,
                   << <<"Text", slice(SampleMkdir, 28, 31)>> >> >>
    /\ \A p \in WordPos :
         (\A k \in 1..Len(RawOf(WordAt(p))) :
            RawOf(WordAt(p))[k] \notin {"'", "\"", "\\", "$"})
         => PartValues(WordAt(p).parts) = << <<"Text", RawOf(WordAt(p))>> >>

\* C6 witness: parse("mkdir --parents --mode=0755 dir") has returned one command.
C6_Witness ==
  pc = "done" /\ input = SampleMkdir /\ Len(pipeline.commands) = 1

\* A token of the form N>&M or N>& (N, M digit runs).
IsDupForm(t) ==
  /\ t.kind = "FD_GT"
  /\ CharAt(t.text, Len(DigitPrefix(t.text)) + 1) = "&"

\* The digits after the & of a dup-form token.
DupDigits(t) == slice(t.text, Len(DigitPrefix(t.text)) + 2, Len(t.text))

\* C7: at the return of parse every token N>&M has exactly one redirection,
\* with op 'dup', fd N and dupTargetFd M, or null when the digits M are
\* missing; dupTargetFd is not undefined only on 'dup' redirections, which
\* come only from such tokens; and "cat f 2>&1" gives one command with the
\* words cat, f and the single redirection dup, fd 2, dupTargetFd 1.
C7_DupRedirection ==
  pc = "done" =>
    /\ \A k \in 1..Len(tokens) :
         IsDupForm(tokens[k]) =>
           /\ Cardinality({p \in RedirPos :
                             RedirAt(p).span.start = tokens[k].start}) = 1
           /\ \A p \in RedirPos :
                RedirAt(p).span.start = tokens[k].start =>
                  /\ RedirAt(p).op = "dup"
                  /\ RedirAt(p).fd = Num(Number(DigitPrefix(tokens[k].text)))
                  /\ RedirAt(p).dupTargetFd =
                       IF DupDigits(tokens[k]) = <<>> THEN Null
                       ELSE Num(Number(DupDigits(tokens[k])))
    /\ \A p \in RedirPos :
         /\ RedirAt(p).dupTargetFd # Undefined => RedirAt(p).op = "dup"
         /\ RedirAt(p).op = "dup" => IsDupForm(OpTokenOf(RedirAt(p)))
    /\ input = SampleDup =>
         /\ Len(pipeline.commands) = 1
         /\ buildArgv(pipeline.commands[1], EmptyContext) = <<<<"c", "a", "t">>, <<"f">>>>
         /\ RedirPos = {<<1, 1>>}
         /\ RedirAt(<<1, 1>>).op = "dup"
         /\ RedirAt(<<1, 1>>).fd = Num(2)
         /\ RedirAt(<<1, 1>>).dupTargetFd = Num(1)

\* C7 witness: parse has returned a dup redirection whose target digits were
\* missing, and went on to a second command.
C7_Witness ==
  /\ pc = "done"
  /\ Len(pipeline.commands) >= 2
  /\ \E p \in RedirPos : RedirAt(p).op = "dup" /\ RedirAt(p).dupTargetFd = Null

\* A redirection operator token that no Word token follows.
MissingTarget(k) ==
  /\ k < Len(tokens)
  /\ tokens[k].kind \in RedirKinds
  /\ tokens[k + 1].kind # "Word"

\* C8: at the return of parse, every redirection operator token that no Word
\* follows has a redirection whose span is the operator's and whose target has
\* no parts and the span [operator end, operator end]; the token after it was
\* not consumed and the rest was parsed: every redirection operator token has
\* its redirection, every Word token that follows no redirection operator is a
\* word of a command, and the other Word tokens are targets.
C8_MissingTarget ==
  pc = "done" =>
    /\ \A k \in 1..Len(tokens) :
         MissingTarget(k) =>
           \E p \in RedirPos :
             /\ RedirAt(p).span = makeSpan(tokens[k].start, tokens[k].end)
             /\ RedirAt(p).target.parts = <<>>
             /\ RedirAt(p).target.span = makeSpan(tokens[k].end, tokens[k].end)
    /\ \A k \in 1..Len(tokens) :
         tokens[k].kind \in RedirKinds =>
           Cardinality({p \in RedirPos : RedirAt(p).span.start = tokens[k].start}) = 1
    /\ Cardinality(RedirPos)
         = Cardinality({k \in 1..Len(tokens) : tokens[k].kind \in RedirKinds})
    /\ \A k \in 1..Len(tokens) :
         tokens[k].kind = "Word" =>
           IF k > 1 /\ tokens[k - 1].kind \in RedirKinds
             THEN \E p \in RedirPos :
                    /\ RedirAt(p).target.span.start = tokens[k].start
                    /\ RedirAt(p).span = makeSpan(tokens[k - 1].start, tokens[k].end)
             ELSE \E p \in WordPos : WordAt(p).span.start = tokens[k].start

\* C8 witness: parse has returned for tokens where a redirection operator is
\* followed by another redirection operator and then a Word.
C8_Witness ==
  /\ pc = "done"
  /\ \E k \in 1..Len(tokens) :
       /\ MissingTarget(k)
       /\ tokens[k + 1].kind \in RedirKinds
       /\ k + 2 <= Len(tokens)
       /\ tokens[k + 2].kind = "Word"

\* The contribution the claim gives a part under context c: a Text part its
\* value, a Var part the string form of the context's own value for its name,
\* or the empty string when the name is absent or its value null or undefined.
Contribution(part, c) ==
  IF part.kind = "Text" THEN part.value
  ELSE IF part.name \in DOMAIN c /\ c[part.name].t \notin {"undefined", "null"}
    THEN String(c[part.name])
  ELSE <<>>

RECURSIVE Concatenation(_, _)
Concatenation(ps, c) ==
  IF ps = <<>> THEN <<>>
  ELSE Contribution(Head(ps), c) \o Concatenation(Tail(ps), c)

\* C9 (as claimed): when buildArgv has returned, the string of every word is
\* the concatenation in order of its parts' contributions under the context.
C9_ExpandAsClaimed ==
  pc = "expanded" =>
    \A p \in WordPos :
      argv[p[1]][p[2]] = Concatenation(WordAt(p).parts, ctx)

\* The words of the returned pipeline and the targets of its redirections.
AllWords ==
  {WordAt(p) : p \in WordPos} \cup {RedirAt(p).target : p \in RedirPos}

\* Raw text that is one single-quoted region: '...' with no quote inside.
IsSingleQuoted(raw) ==
  /\ Len(raw) >= 2
  /\ raw[1] = "'"
  /\ raw[Len(raw)] = "'"
  /\ \A k \in 2..(Len(raw) - 1) : raw[k] # "'"

\* C10: after parse has returned, a word (or redirection target) whose raw
\* text is one single-quoted region has no Var part and expands, under any two
\* contexts, to the same string: the characters between the quotes; and that
\* is the string buildArgv gives for it.
C10_SingleQuotedLiteral ==
  pc \in {"done", "expanded"} =>
    /\ \A w \in AllWords :
         IsSingleQuoted(RawOf(w)) =>
           /\ \A k \in 1..Len(w.parts) : w.parts[k].kind # "Var"
           /\ \A c1, c2 \in Contexts :
                /\ expandWord(w, c1) = expandWord(w, c2)
                /\ expandWord(w, c1) = slice(RawOf(w), 1, Len(RawOf(w)) - 1)
    /\ pc = "expanded" =>
         \A p \in WordPos :
           IsSingleQuoted(RawOf(WordAt(p))) =>
             argv[p[1]][p[2]] = slice(RawOf(WordAt(p)), 1, Len(RawOf(WordAt(p))) - 1)

\* C10 witness: buildArgv has returned for '$X' under a context that defines X.
C10_Witness ==
  /\ pc = "expanded"
  /\ input = SampleSingleQuoted
  /\ NameX \in DOMAIN ctx
  /\ ctx[NameX] = Str(<<"y">>)
  /\ argv = << << <<"$", "X">> >> >>

\* The 0-based offsets in raw, from k on, of the backslashes that escape the
\* next character inside a double-quoted region; mode is "top", "sq" or "dq".
\* With braces = TRUE a ${ takes everything up to the next } as a name, as the
\* splitter does; with braces = FALSE the regions are those the lexer delimits.
RECURSIVE DqEscapes(_, _, _, _)
DqEscapes(raw, k, mode, braces) ==
  IF k >= Len(raw) THEN {}
  ELSE
    LET c == CharAt(raw, k)
    IN IF mode = "sq"
         THEN DqEscapes(raw, k + 1, IF c = "'" THEN "top" ELSE "sq", braces)
       ELSE IF braces /\ c = "$" /\ CharAt(raw, k + 1) = "{"
         THEN DqEscapes(raw, BraceEnd(raw, k + 2) + 1, mode, braces)
       ELSE IF mode = "top"
         THEN IF c = "\\" THEN DqEscapes(raw, k + 2, "top", braces)
              ELSE IF c = "'" THEN DqEscapes(raw, k + 1, "sq", braces)
              ELSE IF c = "\"" THEN DqEscapes(raw, k + 1, "dq", braces)
              ELSE DqEscapes(raw, k + 1, "top", braces)
       ELSE IF c = "\\" THEN {k} \cup DqEscapes(raw, k + 2, "dq", braces)
       ELSE DqEscapes(raw, k + 1, IF c = "\"" THEN "top" ELSE "dq", braces)

\* What the claim gives the escape \x: newline, tab, or x itself.
EscapedChar(x) == IF x = "n" THEN "\n" ELSE IF x = "t" THEN "\t" ELSE x

\* The unmerged parts hold, for the escape at offset k of sraw, one Text part
\* spanning exactly the pair and holding the escaped character; and no Var
\* part starts at the escaped character.
EscapeIsLiteral(k) ==
  /\ \E n \in 1..Len(parts) :
       /\ parts[n].kind = "Text"
       /\ parts[n].span = makeSpan(sbase + k, sbase + k + 2)
       /\ parts[n].value = <<EscapedChar(CharAt(sraw, k + 1))>>
  /\ \A n \in 1..Len(parts) :
       parts[n].kind = "Var" => parts[n].span.start # sbase + k + 1

\* C11 (as claimed): when splitWordIntoParts has scanned raw, every backslash
\* inside a double-quoted region that has a character after it was consumed
\* with that character as a pair and gave the escaped character as text.
C11_EscapePairsAsClaimed ==
  (pc = "split" /\ si >= Len(sraw)) =>
    \A k \in DqEscapes(sraw, 0, "top", FALSE) :
      k + 1 < Len(sraw) => EscapeIsLiteral(k)

\* C11 (amended): the same for every backslash inside a double-quoted region
\* that is not within a ${...} name; and "say \"hi\"" is one word that
\* expands to: say "hi".
C11_EscapePairs ==
  /\ (pc = "split" /\ si >= Len(sraw)) =>
       \A k \in DqEscapes(sraw, 0, "top", TRUE) :
         k + 1 < Len(sraw) => EscapeIsLiteral(k)
  /\ (pc = "done" /\ input = SampleSay) =>
       /\ Len(tokens) = 2
       /\ WordPos = {<<1, 1>>}
       /\ RedirPos = {}
       /\ \A c \in Contexts :
            expandWord(WordAt(<<1, 1>>), c)
              = <<"s", "a", "y", " ", "\"", "h", "i", "\"">>

\* C11 witness: the splitter has scanned a word with the escapes \n, \t, \$,
\* \\ and \" in one double-quoted region.
C11_Witness ==
  /\ pc = "split" /\ si >= Len(sraw)
  /\ sraw = SampleEscapes
  /\ Cardinality(DqEscapes(sraw, 0, "top", TRUE)) = 5

\* The 0-based offsets in raw, from k on, of the unescaped $ characters of
\* unquoted text and of double-quoted regions that are followed neither by {
\* nor by a letter or underscore; mode and braces as for DqEscapes.
RECURSIVE BareDollars(_, _, _, _)
BareDollars(raw, k, mode, braces) ==
  IF k >= Len(raw) THEN {}
  ELSE
    LET c    == CharAt(raw, k)
        next == CharAt(raw, k + 1)
    IN IF mode = "sq"
         THEN BareDollars(raw, k + 1, IF c = "'" THEN "top" ELSE "sq", braces)
       ELSE IF c = "\\" THEN BareDollars(raw, k + 2, mode, braces)
       ELSE IF c = "$"
         THEN IF next = "{"
                THEN BareDollars(raw,
                       IF braces THEN BraceEnd(raw, k + 2) + 1 ELSE k + 1,
                       mode, braces)
              ELSE IF next \in Letters \cup {"_"}
                THEN BareDollars(raw, k + 1, mode, braces)
              ELSE {k} \cup BareDollars(raw, k + 1, mode, braces)
       ELSE IF c = "'" /\ mode = "top"
         THEN BareDollars(raw, k + 1, "sq", braces)
       ELSE IF c = "\""
         THEN BareDollars(raw, k + 1,
                          IF mode = "top" THEN "dq" ELSE "top", braces)
       ELSE BareDollars(raw, k + 1, mode, braces)

\* The unmerged parts hold one Text part "$" spanning exactly the $ at offset
\* k of sraw, and no Var part starts there.
DollarIsLiteral(k) ==
  /\ \E n \in 1..Len(parts) :
       /\ parts[n].kind = "Text"
       /\ parts[n].span = makeSpan(sbase + k, sbase + k + 1)
       /\ parts[n].value = <<"$">>
  /\ \A n \in 1..Len(parts) :
       parts[n].kind = "Var" => parts[n].span.start # sbase + k

\* Text without quote, backslash or brace in which no $ starts a variable.
PlainWithBareDollars(text) ==
  /\ text # <<>>
  /\ \A n \in 1..Len(text) :
       /\ text[n] \notin {"'", "\"", "\\", "{"}
       /\ text[n] = "$" =>
            (n = Len(text) \/ text[n + 1] \notin Letters \cup {"_"})

\* A word made of such text alone, bare or in double quotes, has exactly one
\* part: a Text part holding that text.
BareDollarsMerged ==
  \A p \in WordPos :
    LET w   == WordAt(p)
        raw == RawOf(w)
        n   == Len(raw)
    IN /\ PlainWithBareDollars(raw) =>
            /\ Len(w.parts) = 1
            /\ w.parts[1].kind = "Text"
            /\ w.parts[1].value = raw
       /\ (/\ n >= 3
           /\ raw[1] = "\"" /\ raw[n] = "\""
           /\ PlainWithBareDollars(SubSeq(raw, 2, n - 1))) =>
            /\ Len(w.parts) = 1
            /\ w.parts[1].kind = "Text"
            /\ w.parts[1].value = SubSeq(raw, 2, n - 1)

\* C12 (as claimed): when splitWordIntoParts has scanned raw, every unescaped
\* $ of unquoted or double-quoted text that is followed neither by { nor by a
\* letter or underscore gave the literal text "$" and no Var part.
C12_LiteralDollarAsClaimed ==
  (pc = "split" /\ si >= Len(sraw)) =>
    \A k \in BareDollars(sraw, 0, "top", FALSE) : DollarIsLiteral(k)

\* C12 (amended): the same for every such $ outside a ${...} name; the
\* literal $ is merged with the literal text around it, and
\* "literal $ notvar" yields the single Text part: literal $ notvar.
C12_LiteralDollar ==
  /\ (pc = "split" /\ si >= Len(sraw)) =>
       \A k \in BareDollars(sraw, 0, "top", TRUE) : DollarIsLiteral(k)
  /\ pc = "done" => BareDollarsMerged
  /\ (pc = "done" /\ input = SampleLiteralDollar) =>
       /\ WordPos = {<<1, 1>>}
       /\ PartValues(WordAt(<<1, 1>>).parts)
            = << <<"Text", SubSeq(SampleLiteralDollar, 2,
                                  Len(SampleLiteralDollar) - 1)>> >>

\* C12 witness: "literal $ notvar" has been parsed into one Text part.
C12_Witness ==
  /\ pc = "done"
  /\ input = SampleLiteralDollar
  /\ Len(WordAt(<<1, 1>>).parts) = 1
  /\ WordAt(<<1, 1>>).parts[1].kind = "Text"

\* C13 (as claimed): bixie started with the arguments [--muted, SOURCE_DIR]
\* gets muted = true and positional = [SOURCE_DIR] from parseFlags, does not
\* take the help-and-exit branch, and goes on with SOURCE_DIR as its source
\* directory and muting enabled.
C13_MutedThenSourceAsClaimed ==
  (cliPc \in {"help", "run"} /\ cliArgs = <<TokMuted, SourceDir>>) =>
    /\ Get(result, KeyMuted) = Bool(TRUE)
    /\ result[KeyPositional] = Arr(<<Str(SourceDir)>>)
    /\ cliPc = "run"
    /\ Get(options, KeyMuted) = Bool(TRUE)
    /\ options[KeyPositional] = Arr(<<Str(SourceDir)>>)

\* What a list of parts contributes, in order: each character of a Text part
\* and each Var part.
RECURSIVE Atoms(_)
Atoms(ps) ==
  IF ps = <<>> THEN <<>>
  ELSE LET p == Head(ps)
       IN (IF p.kind = "Text"
             THEN [k \in 1..Len(p.value) |-> [ch |-> p.value[k]]]
             ELSE <<[var |-> p.name, braced |-> p.braced]>>)
          \o Atoms(Tail(ps))

\* No Text part is empty and no two Text parts are adjacent.
MergedClean(ps) ==
  /\ \A k \in 1..Len(ps) : ps[k].kind = "Text" => ps[k].value # <<>>
  /\ \A k \in 1..(Len(ps) - 1) : ~(ps[k].kind = "Text" /\ ps[k + 1].kind = "Text")

\* The word makeWord has just returned to parseCommand.
WordJustMade ==
  IF ret = "word" THEN words[Len(words)] ELSE redirs[Len(redirs)].target

\* C14: the parts of every word of the AST (redirection targets included)
\* hold no empty Text part and no two adjacent Text parts; and the parts
\* splitWordIntoParts returns contribute exactly what the parts it pushed
\* contribute, in the same order, so adjacent literal pieces end up
\* concatenated in one Text part.
C14_TextPartsMerged ==
  /\ [](pc \in {"done", "expanded"} => \A w \in AllWords : MergedClean(w.parts))
  /\ [][(pc = "split" /\ pc' = "cmd") =>
          /\ MergedClean(WordJustMade'.parts)
          /\ Atoms(WordJustMade'.parts) = Atoms(parts)]_vars

\* C14 witness: a word was made from three pushed Text parts that were merged
\* into one.
C14_Witness ==
  /\ pc = "cmd"
  /\ sraw = SampleSay
  /\ Len(parts) >= 3
  /\ \A k \in 1..Len(parts) : parts[k].kind = "Text"
  /\ Len(words) = 1
  /\ Len(words[1].parts) = 1

\* The words of command c of the returned pipeline, as their raw texts.
RawWords(c) ==
  [w \in 1..Len(pipeline.commands[c].words) |-> RawOf(pipeline.commands[c].words[w])]

\* C15: when lex has returned, a token that starts with a digit is FD_GT, with
\* the run's value as fd, if the run of digits is immediately followed by >,
\* and otherwise a Word that begins with the whole run; only such
\* tokens are FD_GT. "echo 2" and "echo 2 > f" have the word 2 (and no fd),
\* "echo 2> f" has a redirection with fd 2 and no word 2.
C15_DigitRun ==
  pc # "lex" =>
    /\ \A k \in 1..Len(tokens) :
         LET t == tokens[k]
             d == DigitsEnd(input, t.start)
         IN /\ (t.kind # "EOF" /\ isDigit(CharAt(input, t.start))) =>
                 IF CharAt(input, d) = ">"
                   THEN /\ t.kind = "FD_GT"
                        /\ t.meta.fd = Number(slice(input, t.start, d))
                   ELSE /\ t.kind = "Word"
                        /\ t.end >= d
                        /\ slice(t.text, 0, d - t.start) = slice(input, t.start, d)
            /\ t.kind = "FD_GT" =>
                 isDigit(CharAt(input, t.start)) /\ CharAt(input, d) = ">"
    /\ (pc = "done" /\ input = SampleEchoDigit) =>
         /\ Len(pipeline.commands) = 1
         /\ RawWords(1) = <<<<"e", "c", "h", "o">>, <<"2">>>>
         /\ RedirPos = {}
    /\ (pc = "done" /\ input = SampleDigitWord) =>
         /\ Len(pipeline.commands) = 1
         /\ RawWords(1) = <<<<"e", "c", "h", "o">>, <<"2">>>>
         /\ RedirPos = {<<1, 1>>}
         /\ RedirAt(<<1, 1>>).op = ">"
         /\ RedirAt(<<1, 1>>).fd = Undefined
         /\ RawOf(RedirAt(<<1, 1>>).target) = <<"f">>
    /\ (pc = "done" /\ input = SampleFdRedirect) =>
         /\ Len(pipeline.commands) = 1
         /\ RawWords(1) = <<<<"e", "c", "h", "o">>>>
         /\ RedirPos = {<<1, 1>>}
         /\ RedirAt(<<1, 1>>).op = ">"
         /\ RedirAt(<<1, 1>>).fd = Num(2)
         /\ RawOf(RedirAt(<<1, 1>>).target) = <<"f">>

\* C15 witness: lex has returned a Word token that begins with a run of two
\* digits, rewound because no > follows the run.
C15_Witness ==
  /\ pc # "lex"
  /\ \E k \in 1..Len(tokens) :
       /\ tokens[k].kind = "Word"
       /\ DigitsEnd(input, tokens[k].start) = tokens[k].start + 2
       /\ tokens[k].end > tokens[k].start + 2

\* The 0-based offsets in s, from k on, of the characters that are inside a
\* single- or double-quoted region or directly after an unquoted backslash;
\* mode is "top", "sq" or "dq".
RECURSIVE Protected(_, _, _)
Protected(s, k, mode) ==
  IF k >= Len(s) THEN {}
  ELSE
    LET c == CharAt(s, k)
    IN IF mode = "top"
         THEN IF c = "\\"
                THEN ({k + 1} \cap (0..(Len(s) - 1))) \cup Protected(s, k + 2, "top")
              ELSE IF c = "'" THEN Protected(s, k + 1, "sq")
              ELSE IF c = "\"" THEN Protected(s, k + 1, "dq")
              ELSE Protected(s, k + 1, "top")
       ELSE IF mode = "sq"
         THEN IF c = "'" THEN Protected(s, k + 1, "top")
              ELSE {k} \cup Protected(s, k + 1, "sq")
       ELSE IF c = "\\"
         THEN ({k, k + 1} \cap (0..(Len(s) - 1))) \cup Protected(s, k + 2, "dq")
       ELSE IF c = "\"" THEN Protected(s, k + 1, "top")
       ELSE {k} \cup Protected(s, k + 1, "dq")

\* Whitespace and the characters operators are made of.
Separators == {" ", "\t", "\n", "\r", "|", "<", ">", "&"}

\* C16: when lex has returned, every whitespace or operator character inside a
\* quoted region or directly after an unquoted backslash lies inside a Word
\* token, after its first character and before its end, and in no other
\* token; and echo "a | b > c" lexes to two Word tokens and EOF and parses to
\* one command with two words and no redirection.
C16_QuotedSeparators ==
  pc # "lex" =>
    /\ \A p \in Protected(input, 0, "top") :
         CharAt(input, p) \in Separators =>
           /\ \E k \in 1..Len(tokens) :
                /\ tokens[k].kind = "Word"
                /\ tokens[k].start < p
                /\ p < tokens[k].end
           /\ \A k \in 1..Len(tokens) :
                tokens[k].kind # "Word" =>
                  ~(tokens[k].start <= p /\ p < tokens[k].end)
           /\ \A k \in 1..Len(tokens) :
                tokens[k].start # p /\ (tokens[k].kind = "Word" => tokens[k].end # p)
    /\ input = SampleQuotedOperators =>
         /\ [k \in 1..Len(tokens) |-> tokens[k].kind] = <<"Word", "Word", "EOF">>
         /\ pc = "done" =>
              /\ Len(pipeline.commands) = 1
              /\ Len(pipeline.commands[1].words) = 2
              /\ RedirPos = {}

\* C16 witness: echo "a | b > c" has been parsed.
C16_Witness ==
  /\ pc = "done"
  /\ input = SampleQuotedOperators
  /\ Cardinality({p \in Protected(input, 0, "top") :
                    CharAt(input, p) \in Separators}) = 6

\* start and end are ordered and inside the input.
SpanInInput(sp) == 0 <= sp.start /\ sp.start <= sp.end /\ sp.end <= Len(input)

\* Span inner lies within span outer.
SpanWithin(inner, outer) ==
  outer.start <= inner.start /\ inner.start <= inner.end /\ inner.end <= outer.end

\* Every token lies inside the input, its text is as long as its span, and it
\* ends before the next token starts.
TokensWellFormed ==
  /\ \A k \in 1..Len(tokens) :
       /\ SpanInInput(makeSpan(tokens[k].start, tokens[k].end))
       /\ Len(tokens[k].text) = tokens[k].end - tokens[k].start
  /\ \A k \in 1..(Len(tokens) - 1) : tokens[k].end <= tokens[k + 1].start

\* Every redirection span and part span lies inside the input, and every part
\* span within the span of its word.
AstSpansWellFormed ==
  /\ \A p \in RedirPos : SpanInInput(RedirAt(p).span)
  /\ \A w \in AllWords :
       \A k \in 1..Len(w.parts) :
         /\ SpanInInput(w.parts[k].span)
         /\ SpanWithin(w.parts[k].span, w.span)

\* C17 (as claimed): when parse has returned, every token span, redirection
\* span and part span is well-formed and inside the input, token texts are as
\* long as their spans, consecutive tokens do not overlap, and every part span
\* lies within its word's span.
C17_SpansAsClaimed ==
  pc = "done" => TokensWellFormed /\ AstSpansWellFormed

\* The 1-based indexes of the Word tokens.
WordTokens == {k \in 1..Len(tokens) : tokens[k].kind = "Word"}

\* The Word token k directly follows a redirection operator token.
IsTargetToken(k) == k > 1 /\ tokens[k - 1].kind \in RedirKinds

\* The command a token lies in: one more than the Pipe tokens before it.
CommandOfToken(k) ==
  1 + Cardinality({j \in 1..(k - 1) : tokens[j].kind = "Pipe"})

\* The redirections whose target was made from a token (it is not the empty
\* placeholder of a missing target).
RealTargets == {p \in RedirPos : RedirAt(p).target.span.start # RedirAt(p).target.span.end}

\* The AST word w is the word of token t.
WordOfToken(w, t) ==
  /\ w.span = makeSpan(t.start, t.start + Len(t.text))
  /\ RawOf(w) = t.text

\* C18: parseCommand never meets a token it has no branch for; and when parse
\* has returned, its cursor is at the EOF token, every redirection operator
\* token has exactly one Redirection, every Word token that directly follows a
\* redirection operator token (dup forms included) is the target of that
\* operator's Redirection and no word of a command, every other Word token is
\* exactly one word of the command it lies in, the words of the commands are
\* in token order, and the AST has no word or target beyond these.
C18_NoTokenLost ==
  /\ pc = "cmd" => peekTok(0).kind \in {"EOF", "Pipe", "Word"} \cup RedirKinds
  /\ pc = "done" =>
       /\ idx = Len(tokens) - 1
       /\ tokens[idx + 1].kind = "EOF"
       /\ \A k \in 1..Len(tokens) :
            tokens[k].kind \in RedirKinds =>
              Cardinality({p \in RedirPos :
                             RedirAt(p).span.start = tokens[k].start}) = 1
       /\ Cardinality(RedirPos)
            = Cardinality({k \in 1..Len(tokens) : tokens[k].kind \in RedirKinds})
       /\ \A k \in WordTokens :
            IF IsTargetToken(k)
              THEN /\ Cardinality({p \in RedirPos :
                         /\ RedirAt(p).span.start = tokens[k - 1].start
                         /\ WordOfToken(RedirAt(p).target, tokens[k])}) = 1
                   /\ \A p \in WordPos : WordAt(p).span.start # tokens[k].start
              ELSE /\ Cardinality({p \in WordPos :
                         /\ p[1] = CommandOfToken(k)
                         /\ WordOfToken(WordAt(p), tokens[k])}) = 1
                   /\ \A p \in RealTargets :
                        RedirAt(p).target.span.start # tokens[k].start
       /\ Cardinality(WordPos)
            = Cardinality({k \in WordTokens : ~IsTargetToken(k)})
       /\ Cardinality(RealTargets)
            = Cardinality({k \in WordTokens : IsTargetToken(k)})
       /\ \A p, q \in WordPos :
            (p[1] < q[1] \/ (p[1] = q[1] /\ p[2] < q[2])) =>
              WordAt(p).span.start < WordAt(q).span.start

\* C18 witness: parse has returned for 2>&1 file: the Word after the dup form
\* is the redirection's target and the command has no word.
C18_Witness ==
  /\ pc = "done"
  /\ input = SampleDupThenWord
  /\ WordPos = {}
  /\ RedirPos = {<<1, 1>>}
  /\ RawOf(RedirAt(<<1, 1>>).target) = <<"f", "i", "l", "e">>

====
